---- MODULE Spec2Model ----
(***************************************************************************)
(* A model of app.py: the /get_options request handler, its upstream       *)
(* calls, and the pure analytics it runs over an option chain.             *)
(*                                                                         *)
(* Units.  Money (strike, bid, ask, price) is in whole dollars; delta is   *)
(* in hundredths (0.20 is 20).  An optional value (Python None) is the     *)
(* empty sequence, a present value v is <<v>>.  A date string              *)
(* 'YYYY-MM-DD' is the triple <<y, m, d>> of its three number fields,      *)
(* which may be out of range (strptime then raises ValueError).            *)
(* A ratio is the pair <<numerator, denominator>>.  Display rounding       *)
(* (round(x, 2), the percent format) and the greeks that no analytic       *)
(* reads (IV, theta) are not carried.                                      *)
(***************************************************************************)
EXTENDS Integers, Sequences, FiniteSets, TLC

VARIABLES
    pc,                     \* get_options: position of the handler
    credential,             \* TRADIER_API_KEY is set
    body,                   \* request.json
    calls,                  \* upstream requests issued so far, in order
    current_price,          \* get_options: current_price
    all_expirations,        \* get_options: all_expirations
    next_two_expirations,   \* get_options: next_two_expirations
    chains,                 \* option_chain of each loop iteration so far
    results,                \* get_options: results
    raised,                 \* type of the exception that left the try block
    response,               \* what the handler returned
    f_pc,                   \* pure-function harness: "call" or "returned"
    f_options,              \* pure-function harness: the chain argument
    f_price,                \* pure-function harness: current_price argument
    f_ret                   \* pure-function harness: the returned value

vars == <<pc, credential, body, calls, current_price, all_expirations,
          next_two_expirations, chains, results, raised, response,
          f_pc, f_options, f_price, f_ret>>

handlerVars == <<pc, credential, body, calls, current_price, all_expirations,
                 next_two_expirations, chains, results, raised, response>>

harnessVars == <<f_pc, f_options, f_price, f_ret>>

(***************************************************************************)
(* Bounds                                                                  *)
(***************************************************************************)
MaxExpirations == 3
MaxFilterLen == 3
MaxPainLen == 3
MaxMoveLen == 3

(***************************************************************************)
(* Values                                                                  *)
(***************************************************************************)
None == <<>>

Some(v) == <<v>>

Abs(x) == IF x < 0 THEN -x ELSE x

SeqsUpTo(S, n) == UNION {[1..k -> S] : k \in 0..n}

\* Sequences without a repeated element.
DistinctSeqsUpTo(S, n) ==
    {s \in SeqsUpTo(S, n) : \A i, j \in 1..Len(s) : i # j => s[i] # s[j]}

\* A call that returned v, or one that raised an exception.
Ok(v) == [exc |-> "", msg |-> "", val |-> v]

Raise(type, message, dummy) == [exc |-> type, msg |-> message, val |-> dummy]

(***************************************************************************)
(* Dates: datetime.strptime(exp, '%Y-%m-%d').date() and date arithmetic    *)
(***************************************************************************)
IsLeap(y) == y % 4 = 0 /\ (y % 100 # 0 \/ y % 400 = 0)

DaysInMonth(y, m) ==
    IF m = 2 THEN (IF IsLeap(y) THEN 29 ELSE 28)
    ELSE IF m \in {4, 6, 9, 11} THEN 30 ELSE 31

\* strptime accepts the string: the fields name a day of the calendar.
ValidDate(s) ==
    /\ s[1] >= 1
    /\ s[2] \in 1..12
    /\ s[3] >= 1 /\ s[3] <= DaysInMonth(s[1], s[2])

RECURSIVE DaysBeforeMonth(_, _)
DaysBeforeMonth(y, m) ==
    IF m <= 1 THEN 0 ELSE DaysBeforeMonth(y, m - 1) + DaysInMonth(y, m - 1)

\* The proleptic Gregorian ordinal of a valid date.
ToOrdinal(s) ==
    LET y == s[1] - 1
    IN  y * 365 + (y \div 4) - (y \div 100) + (y \div 400)
          + DaysBeforeMonth(s[1], s[2]) + s[3]

\* date.today(), fixed for the length of a request.
today == <<2024, 3, 1>>

StrptimeError == "time data does not match format '%Y-%m-%d'"

(***************************************************************************)
(* The option contract, as received                                        *)
(***************************************************************************)
Contract(type, strike, bid, ask, volume, oi, delta, exp) ==
    [symbol |-> <<"XYZ", exp, type, strike>>, option_type |-> type,
     strike |-> strike, bid |-> bid, ask |-> ask, volume |-> volume,
     open_interest |-> oi, delta |-> delta, expiration_date |-> exp]

(***************************************************************************)
(* filter_and_format_options                                               *)
(***************************************************************************)
max_delta == 20
min_volume == 250
min_open_interest == 500
max_strike == 30

\* The mutant: the volume test as a strict one.
FilterVerdictStrictVolume(option) ==
    IF option.option_type # "put" THEN "Not a PUT option"
    ELSE IF Abs(option.delta) > max_delta THEN "Delta"
    ELSE IF option.volume <= min_volume THEN "Volume"
    ELSE IF option.open_interest < min_open_interest THEN "Open Interest"
    ELSE IF option.strike > max_strike THEN "Strike"
    ELSE "Included"

\* The if/elif chain of the loop body: the first failing test, or "Included".
FilterVerdict(option) ==
    IF option.option_type # "put" THEN "Not a PUT option"
    ELSE IF Abs(option.delta) > max_delta THEN "Delta"
    ELSE IF option.volume < min_volume THEN "Volume"
    ELSE IF option.open_interest < min_open_interest THEN "Open Interest"
    ELSE IF option.strike > max_strike THEN "Strike"
    ELSE "Included"

formatted_option(option) ==
    [Symbol |-> option.symbol, Strike |-> option.strike, Bid |-> option.bid,
     Ask |-> option.ask, Volume |-> option.volume,
     Open_Interest |-> option.open_interest, Delta |-> option.delta,
     Expiration |-> option.expiration_date]

RECURSIVE filter_and_format_options(_)
filter_and_format_options(options) ==
    IF options = <<>> THEN <<>>
    ELSE LET rest == filter_and_format_options(Tail(options))
         IN  IF FilterVerdict(Head(options)) = "Included"
             THEN <<formatted_option(Head(options))>> \o rest
             ELSE rest

(***************************************************************************)
(* calculate_annualized_return                                             *)
(***************************************************************************)
\* math.ceil(a / b) for b > 0.
Ceil(a, b) == -((-a) \div b)

calculate_annualized_return(premium, strike_price, days_to_expiration) ==
    IF strike_price = 0
    THEN Raise("ZeroDivisionError", "float division by zero", <<0, 1>>)
    ELSE LET weeks_to_expiration == Ceil(days_to_expiration, 7)
         IN  IF weeks_to_expiration = 0
             THEN Raise("ZeroDivisionError", "division by zero", <<0, 1>>)
             ELSE Ok(<<premium * 52, strike_price * weeks_to_expiration>>)

(***************************************************************************)
(* calculate_put_call_ratio, interpret_put_call_ratio                      *)
(***************************************************************************)
RECURSIVE VolumeOf(_, _)
VolumeOf(options, type) ==
    IF options = <<>> THEN 0
    ELSE (IF Head(options).option_type = type THEN Head(options).volume ELSE 0)
           + VolumeOf(Tail(options), type)

\* <<put_volume, call_volume>>; a zero denominator is float('inf').
calculate_put_call_ratio(options) ==
    <<VolumeOf(options, "put"), VolumeOf(options, "call")>>

interpret_put_call_ratio(ratio) ==
    IF ratio[2] = 0 \/ ratio[1] > ratio[2] THEN "Bearish"
    ELSE IF ratio[1] < ratio[2] THEN "Bullish"
    ELSE "Neutral"

(***************************************************************************)
(* calculate_max_pain                                                      *)
(***************************************************************************)
SetMin(S) == CHOOSE x \in S : \A y \in S : x <= y

RECURSIVE SortedSeq(_)
SortedSeq(S) ==
    IF S = {} THEN <<>> ELSE <<SetMin(S)>> \o SortedSeq(S \ {SetMin(S)})

RECURSIVE FirstSeen(_)
FirstSeen(options) ==
    IF options = <<>> THEN <<>>
    ELSE LET rest == FirstSeen(Tail(options))
         IN  <<Head(options).strike>>
               \o SelectSeq(rest, LAMBDA s : s # Head(options).strike)

\* The mutant: the distinct strikes in the order the chain lists them.
StrikesUnsorted(options) == FirstSeen(options)

\* sorted(set(float(option['strike']) for option in options))
Strikes(options) == SortedSeq({options[i].strike : i \in 1..Len(options)})

Max0(x) == IF x > 0 THEN x ELSE 0

\* One term of the sum: what the contract costs its writer at `strike`.
PainOf(option, strike) ==
    IF option.option_type = "call"
    THEN Max0(strike - option.strike) * option.open_interest
    ELSE Max0(option.strike - strike) * option.open_interest

RECURSIVE total_pain(_, _)
total_pain(options, strike) ==
    IF options = <<>> THEN 0
    ELSE PainOf(Head(options), strike) + total_pain(Tail(options), strike)

\* min(pain, key=pain.get): the first key, in the dict's insertion order,
\* whose total pain is least.
RECURSIVE MinPainKey(_, _, _)
MinPainKey(options, keys, best) ==
    IF keys = <<>> THEN best
    ELSE MinPainKey(options, Tail(keys),
            IF total_pain(options, Head(keys)) < total_pain(options, best)
            THEN Head(keys) ELSE best)

calculate_max_pain(options) ==
    LET strikes == Strikes(options)
    IN  MinPainKey(options, Tail(strikes), Head(strikes))

(***************************************************************************)
(* calculate_expected_move                                                 *)
(***************************************************************************)
\* The mutant: min() keeping the last of the equally near contracts.
RECURSIVE AtmContractLast(_, _, _)
AtmContractLast(options, price, best) ==
    IF options = <<>> THEN best
    ELSE AtmContractLast(Tail(options), price,
            IF Abs(Head(options).strike - price) <= Abs(best.strike - price)
            THEN Head(options) ELSE best)

RECURSIVE AtmContractFirst(_, _, _)
AtmContractFirst(options, price, best) ==
    IF options = <<>> THEN best
    ELSE AtmContractFirst(Tail(options), price,
            IF Abs(Head(options).strike - price) < Abs(best.strike - price)
            THEN Head(options) ELSE best)

AtmScanLast(options, price) ==
    AtmContractLast(Tail(options), price, Head(options))

\* min(options, key=lambda x: abs(float(x['strike']) - current_price))
AtmScan(options, price) ==
    AtmContractFirst(Tail(options), price, Head(options))

\* next((opt for opt in options if ...), None)
RECURSIVE NextMatch(_, _, _)
NextMatch(options, type, strike) ==
    IF options = <<>> THEN None
    ELSE IF Head(options).option_type = type /\ Head(options).strike = strike
         THEN Some(Head(options))
         ELSE NextMatch(Tail(options), type, strike)

calculate_expected_move(options, price) ==
    LET atm_strike == AtmScan(options, price)
        atm_call == NextMatch(options, "call", atm_strike.strike)
        atm_put == NextMatch(options, "put", atm_strike.strike)
    IN  IF atm_call # None /\ atm_put # None
        THEN Some(atm_call[1].bid + atm_put[1].bid)
        ELSE None

(***************************************************************************)
(* Responses: jsonify(...), status                                         *)
(***************************************************************************)
ErrorResponse(status, message) ==
    [status |-> status, error |-> message, payload |-> FALSE,
     current_price |-> None, expirations |-> <<>>]

NoResponse == ErrorResponse(0, "")

SuccessResponse(price, expirations) ==
    [status |-> 200, error |-> "", payload |-> TRUE,
     current_price |-> Some(price), expirations |-> expirations]

\* The two except clauses of get_options.
HandleException(e) ==
    IF e.exc = "ValueError"
    THEN ErrorResponse(401, e.msg)
    ELSE ErrorResponse(500, "An unexpected error occurred")

(***************************************************************************)
(* The quote client                                                        *)
(***************************************************************************)
\* What the upstream does with one request: answers it, rejects the
\* credential (401), answers another error status, or the transport fails.
UpstreamOutcomes == {"ok", "401", "http", "transport"}

check_api_key(key) ==
    IF key THEN Ok(TRUE)
    ELSE Raise("ValueError",
               "TRADIER_API_KEY is not set in the environment variables.", FALSE)

\* The mutant: every failure but the 401 is logged and the data passed on.
make_api_request_swallow(up, data) ==
    IF up = "401"
    THEN Raise("ValueError", "API key is invalid or has expired", data)
    ELSE Ok(data)

\* `data` is what response.json() holds when the upstream answers.
make_api_request(up, data) ==
    IF up = "ok" THEN Ok(data)
    ELSE IF up = "401"
    THEN Raise("ValueError", "API key is invalid or has expired", data)
    ELSE IF up = "http" THEN Raise("HTTPError", "HTTP error occurred", data)
    ELSE Raise("ConnectionError", "Request error occurred", data)

\* dict.get(key): the value, or None when the key is absent.
DictGet(d, key) == IF key \in DOMAIN d THEN d[key] ELSE None

\* results[key] = value
DictSet(d, key, value) ==
    [k \in DOMAIN d \cup {key} |-> IF k = key THEN value ELSE d[k]]

(***************************************************************************)
(* get_next_two_expirations                                                *)
(***************************************************************************)
SubSeqTo(s, n) == IF Len(s) <= n THEN s ELSE SubSeq(s, 1, n)

\* The mutant: today's own expiration counts as a future one.
get_next_two_expirations_incl(expirations) ==
    IF \E i \in 1..Len(expirations) : ~ValidDate(expirations[i])
    THEN Raise("ValueError", StrptimeError, <<>>)
    ELSE Ok(SubSeqTo(SelectSeq(expirations,
                LAMBDA exp : ToOrdinal(exp) >= ToOrdinal(today)), 2))

get_next_two_expirations(expirations) ==
    IF \E i \in 1..Len(expirations) : ~ValidDate(expirations[i])
    THEN Raise("ValueError", StrptimeError, <<>>)
    ELSE Ok(SubSeqTo(SelectSeq(expirations,
                LAMBDA exp : ToOrdinal(exp) > ToOrdinal(today)), 2))

(***************************************************************************)
(* get_options: the body of the loop over next_two_expirations             *)
(***************************************************************************)
EmptyResult ==
    [options |-> <<>>, put_call_ratio |-> None,
     outlook |-> "Unable to determine", max_pain |-> None,
     expected_move |-> None]

WithReturn(option, annualized_return) ==
    [Symbol |-> option.Symbol, Strike |-> option.Strike, Bid |-> option.Bid,
     Ask |-> option.Ask, Volume |-> option.Volume,
     Open_Interest |-> option.Open_Interest, Delta |-> option.Delta,
     Expiration |-> option.Expiration,
     Annualized_Return |-> annualized_return]

\* The inner loop: the options with their annualized return, or the first
\* exception one of them raises.
RECURSIVE FormatOptions(_)
FormatOptions(filtered_options) ==
    IF filtered_options = <<>> THEN Ok(<<>>)
    ELSE LET option == Head(filtered_options)
         IN  IF ~ValidDate(option.Expiration)
             THEN Raise("ValueError", StrptimeError, <<>>)
             ELSE LET days_to_expiration ==
                          ToOrdinal(option.Expiration) - ToOrdinal(today)
                      annualized_return ==
                          calculate_annualized_return(option.Ask, option.Strike,
                                                      days_to_expiration)
                      rest == FormatOptions(Tail(filtered_options))
                  IN  IF annualized_return.exc # ""
                      THEN Raise(annualized_return.exc, annualized_return.msg,
                                 <<>>)
                      ELSE IF rest.exc # "" THEN rest
                      ELSE Ok(<<WithReturn(option, annualized_return.val)>>
                                \o rest.val)

AnalyseNonEmpty(option_chain, price) ==
    LET put_call_ratio == calculate_put_call_ratio(option_chain)
        formatted_options ==
            FormatOptions(filter_and_format_options(option_chain))
    IN  IF formatted_options.exc # ""
        THEN Raise(formatted_options.exc, formatted_options.msg, EmptyResult)
        ELSE Ok([options |-> formatted_options.val,
                 put_call_ratio |-> Some(put_call_ratio),
                 outlook |-> interpret_put_call_ratio(put_call_ratio),
                 max_pain |-> Some(calculate_max_pain(option_chain)),
                 expected_move |->
                     calculate_expected_move(option_chain, price)])

\* The mutant: no `if option_chain:` test, so min() meets an empty dict.
AnalyseChainUnguarded(option_chain, price) ==
    IF option_chain = <<>>
    THEN Raise("ValueError", "min() arg is an empty sequence", EmptyResult)
    ELSE AnalyseNonEmpty(option_chain, price)

AnalyseChain(option_chain, price) ==
    IF option_chain = <<>> THEN Ok(EmptyResult)
    ELSE AnalyseNonEmpty(option_chain, price)

(***************************************************************************)
(* get_options, one step per upstream call                                 *)
(***************************************************************************)
\* `not symbol`
NotSymbol(symbol) == symbol = None \/ symbol = Some("")

\* `not current_price`
NotPrice(price) == price = None \/ price = Some(0)

Stop(resp, exc) == [pc |-> "done", response |-> resp, raised |-> exc]

Continue(to) == [pc |-> to, response |-> NoResponse, raised |-> ""]

\* The mutant: the credential is checked before the request body is read.
AdmitKeyFirst(b, key) ==
    IF check_api_key(key).exc # ""
    THEN Stop(HandleException(check_api_key(key)), check_api_key(key).exc)
    ELSE IF NotSymbol(DictGet(b, "symbol"))
    THEN Stop(ErrorResponse(400, "No symbol provided"), "")
    ELSE Continue("price")

\* From the request to the first upstream call.
Admit(b, key) ==
    IF NotSymbol(DictGet(b, "symbol"))
    THEN Stop(ErrorResponse(400, "No symbol provided"), "")
    ELSE IF check_api_key(key).exc # ""
    THEN Stop(HandleException(check_api_key(key)), check_api_key(key).exc)
    ELSE Continue("price")

\* get_stock_price and the test of its result.
AfterPrice(r) ==
    IF r.exc # "" THEN Stop(HandleException(r), r.exc)
    ELSE IF NotPrice(r.val)
    THEN Stop(ErrorResponse(500, "Failed to fetch current stock price"), "")
    ELSE Continue("expirations")

\* get_option_expirations, the selection, and the tests of both.
AfterExpirations(r) ==
    IF r.exc # "" THEN Stop(HandleException(r), r.exc)
    ELSE IF r.val = <<>>
    THEN Stop(ErrorResponse(404, "No expirations available for this symbol"), "")
    ELSE LET sel == get_next_two_expirations(r.val)
         IN  IF sel.exc # "" THEN Stop(HandleException(sel), sel.exc)
             ELSE IF Len(sel.val) < 2
             THEN Stop(ErrorResponse(400,
                          "Not enough future expirations available"), "")
             ELSE Continue("chain")

Bodies ==
    {<<>>, [symbol |-> None], [symbol |-> Some("")], [symbol |-> Some("XYZ")]}

Quotes == {None, Some(0), Some(20)}

DateStrings ==
    {<<2024, 1, 1>>, today, <<2024, 3, 8>>, <<2024, 3, 15>>, <<2024, 6, 21>>,
     <<2024, 13, 45>>}

\* The chains the upstream may answer with for expiration `exp`: none, a
\* qualifying put alone, a put among an at-the-money pair, and a qualifying
\* put whose own expiration_date is today or is no date.
ChainsFor(exp) ==
    LET put15(e) == Contract("put", 15, 1, 2, 300, 600, -10, e)
        call20(e) == Contract("call", 20, 3, 4, 100, 600, 50, e)
        put20(e) == Contract("put", 20, 2, 3, 300, 600, -50, e)
    IN  {<<>>, <<put15(exp)>>, <<call20(exp), put20(exp), put15(exp)>>,
         <<put15(today)>>, <<put15(<<2024, 13, 45>>)>>}

Call(endpoint, exp, up) ==
    [endpoint |-> endpoint, expiration |-> exp, outcome |-> up]

HarnessIdle ==
    /\ f_pc = "off"
    /\ f_options = <<>>
    /\ f_price = 0
    /\ f_ret = <<>>

Init ==
    /\ pc = "idle"
    /\ credential \in BOOLEAN
    /\ body = <<>>
    /\ calls = <<>>
    /\ current_price = None
    /\ all_expirations = <<>>
    /\ next_two_expirations = <<>>
    /\ chains = <<>>
    /\ results = <<>>
    /\ raised = ""
    /\ response = NoResponse
    /\ HarnessIdle

\* request.json, the symbol test and check_api_key.
Request ==
    /\ pc = "idle"
    /\ \E b \in Bodies :
          LET step == Admit(b, credential)
          IN  /\ body' = b
              /\ pc' = step.pc
              /\ response' = step.response
              /\ raised' = step.raised
    /\ UNCHANGED <<credential, calls, current_price, all_expirations,
                   next_two_expirations, chains, results>>
    /\ UNCHANGED harnessVars

\* current_price = get_stock_price(symbol)
FetchPrice ==
    /\ pc = "price"
    /\ \E up \in UpstreamOutcomes, quote \in Quotes :
          LET r == make_api_request(up, quote)
              step == AfterPrice(r)
          IN  /\ calls' = Append(calls, Call("markets/quotes", None, up))
              /\ current_price' = IF r.exc = "" THEN r.val ELSE current_price
              /\ pc' = step.pc
              /\ response' = step.response
              /\ raised' = step.raised
    /\ UNCHANGED <<credential, body, all_expirations, next_two_expirations,
                   chains, results>>
    /\ UNCHANGED harnessVars

\* all_expirations = get_option_expirations(symbol), then the selection.
\* The upstream lists no expiration date twice.
FetchExpirations ==
    /\ pc = "expirations"
    /\ \E up \in UpstreamOutcomes,
          dates \in DistinctSeqsUpTo(DateStrings, MaxExpirations) :
          LET r == make_api_request(up, dates)
              step == AfterExpirations(r)
          IN  /\ calls' = Append(calls,
                     Call("markets/options/expirations", None, up))
              /\ all_expirations' = IF r.exc = "" THEN r.val ELSE all_expirations
              /\ next_two_expirations' =
                     IF step.pc = "chain"
                     THEN get_next_two_expirations(r.val).val
                     ELSE next_two_expirations
              /\ pc' = step.pc
              /\ response' = step.response
              /\ raised' = step.raised
    /\ UNCHANGED <<credential, body, current_price, chains, results>>
    /\ UNCHANGED harnessVars

\* One iteration of the loop: get_option_chain, the analytics, and after the
\* last iteration the response.
FetchChain ==
    /\ pc = "chain"
    /\ LET expiration == next_two_expirations[Len(chains) + 1]
       IN  \E up \in UpstreamOutcomes, option_chain \in ChainsFor(expiration) :
              LET r == make_api_request(up, option_chain)
                  a == AnalyseChain(option_chain, current_price[1])
                  last == Len(chains) + 1 = Len(next_two_expirations)
              IN  /\ calls' = Append(calls,
                         Call("markets/options/chains", Some(expiration), up))
                  /\ chains' = IF r.exc = "" THEN Append(chains, r.val)
                               ELSE chains
                  /\ IF r.exc # ""
                     THEN /\ pc' = "done"
                          /\ response' = HandleException(r)
                          /\ raised' = r.exc
                          /\ UNCHANGED results
                     ELSE IF a.exc # ""
                     THEN /\ pc' = "done"
                          /\ response' = HandleException(a)
                          /\ raised' = a.exc
                          /\ UNCHANGED results
                     ELSE /\ results' = DictSet(results, expiration, a.val)
                          /\ pc' = IF last THEN "done" ELSE "chain"
                          /\ response' =
                                 IF last
                                 THEN SuccessResponse(current_price[1], results')
                                 ELSE response
                          /\ UNCHANGED raised
    /\ UNCHANGED <<credential, body, current_price, all_expirations,
                   next_two_expirations>>
    /\ UNCHANGED harnessVars

Next == Request \/ FetchPrice \/ FetchExpirations \/ FetchChain

Spec == Init /\ [][Next]_vars

(***************************************************************************)
(* The handler's variables while a pure function is exercised on its own   *)
(***************************************************************************)
HandlerIdle ==
    /\ pc = "off"
    /\ credential = TRUE
    /\ body = <<>>
    /\ calls = <<>>
    /\ current_price = None
    /\ all_expirations = <<>>
    /\ next_two_expirations = <<>>
    /\ chains = <<>>
    /\ results = <<>>
    /\ raised = ""
    /\ response = NoResponse

(***************************************************************************)
(* filter_and_format_options over every chain of up to MaxFilterLen        *)
(* contracts, each field on either side of its threshold                   *)
(***************************************************************************)
FilterContracts ==
    {Contract(c[1], c[2], 1, 2, c[3], c[4], c[5], <<2024, 3, 15>>) : c \in
        {<<"put", 15, 300, 600, -10>>,    \* passes
         <<"put", 30, 250, 500, -20>>,    \* passes, every field at its limit
         <<"put", 30, 250, 500, 20>>,     \* passes, positive delta
         <<"call", 15, 300, 600, -10>>,   \* not a put
         <<"call", 31, 249, 499, 21>>,    \* not a put, nothing else passes
         <<"put", 15, 300, 600, -21>>,    \* delta
         <<"put", 15, 300, 600, 21>>,     \* delta
         <<"put", 15, 249, 600, -10>>,    \* volume
         <<"put", 15, 300, 499, -10>>,    \* open interest
         <<"put", 31, 300, 600, -10>>}}   \* strike

FilterInit ==
    /\ HandlerIdle
    /\ f_pc = "call"
    /\ f_options \in SeqsUpTo(FilterContracts, MaxFilterLen)
    /\ f_price = 0
    /\ f_ret = <<>>

FilterCall ==
    /\ f_pc = "call"
    /\ f_ret' = filter_and_format_options(f_options)
    /\ f_pc' = "returned"
    /\ UNCHANGED <<f_options, f_price>>
    /\ UNCHANGED handlerVars

SpecFilter == FilterInit /\ [][FilterCall]_vars

(***************************************************************************)
(* calculate_max_pain over every non-empty chain of up to MaxPainLen       *)
(* contracts                                                               *)
(***************************************************************************)
PainContracts ==
    {Contract(t, k, 1, 2, 300, oi, -10, <<2024, 3, 15>>) :
        t \in {"put", "call"}, k \in {10, 20, 30}, oi \in {0, 5}}

PainInit ==
    /\ HandlerIdle
    /\ f_pc = "call"
    /\ f_options \in SeqsUpTo(PainContracts, MaxPainLen) \ {<<>>}
    /\ f_price = 0
    /\ f_ret = 0

PainCall ==
    /\ f_pc = "call"
    /\ f_ret' = calculate_max_pain(f_options)
    /\ f_pc' = "returned"
    /\ UNCHANGED <<f_options, f_price>>
    /\ UNCHANGED handlerVars

SpecPain == PainInit /\ [][PainCall]_vars

(***************************************************************************)
(* calculate_expected_move over every non-empty chain of up to MaxMoveLen  *)
(* contracts and a price between, at and beside the strikes                *)
(***************************************************************************)
MoveContracts ==
    {Contract(t, k, b, b + 1, 300, 600, -10, <<2024, 3, 15>>) :
        t \in {"put", "call"}, k \in {19, 20, 21}, b \in {1, 3}}

MoveInit ==
    /\ HandlerIdle
    /\ f_pc = "call"
    /\ f_options \in SeqsUpTo(MoveContracts, MaxMoveLen) \ {<<>>}
    /\ f_price \in {20, 22}
    /\ f_ret = None

MoveCall ==
    /\ f_pc = "call"
    /\ f_ret' = calculate_expected_move(f_options, f_price)
    /\ f_pc' = "returned"
    /\ UNCHANGED <<f_options, f_price>>
    /\ UNCHANGED handlerVars

SpecMove == MoveInit /\ [][MoveCall]_vars

(***************************************************************************)
(* What the claims speak of, read off the request's history                *)
(***************************************************************************)
Answered == pc = "done"

IsError == response.status >= 400

NoPayload == ~response.payload /\ DOMAIN response.expirations = {}

HasSymbol ==
    "symbol" \in DOMAIN body /\ body["symbol"] # None /\ body["symbol"] # Some("")

CallOk(i) == Len(calls) >= i /\ calls[i].outcome = "ok"

\* The dates of all_expirations that lie strictly after today.
FutureDates ==
    {d \in {all_expirations[i] : i \in 1..Len(all_expirations)} :
        ValidDate(d) /\ ToOrdinal(d) > ToOrdinal(today)}

NoPriceCase == CallOk(1) /\ current_price \in {None, Some(0)}

NoExpirationsCase == CallOk(2) /\ all_expirations = <<>>

FewFutureCase == CallOk(2) /\ Cardinality(FutureDates) < 2

EndpointAt(i) ==
    IF i = 1 THEN "markets/quotes"
    ELSE IF i = 2 THEN "markets/options/expirations"
    ELSE "markets/options/chains"

EndsInError == Answered /\ IsError /\ NoPayload

(***************************************************************************)
(* C1.  The upstream calls of one request are, in this order and each at   *)
(* most once: price, expirations, chain of the first selected expiration,  *)
(* chain of the second.  Once a step has failed (no credential, an         *)
(* upstream 401, HTTP or transport error, no price, no expirations, fewer  *)
(* than two future expirations) the request is answered with an error, the *)
(* failing call is the last one made, and the answer carries no            *)
(* 'expirations' payload.                                                  *)
(***************************************************************************)
C1_CallsInOrderAndShortCircuit ==
    /\ Len(calls) <= 4
    /\ \A i \in 1..Len(calls) :
          /\ calls[i].endpoint = EndpointAt(i)
          /\ calls[i].expiration =
                 IF i <= 2 THEN None ELSE Some(next_two_expirations[i - 2])
    /\ \A i, j \in 1..Len(calls) :
          i # j => <<calls[i].endpoint, calls[i].expiration>>
                     # <<calls[j].endpoint, calls[j].expiration>>
    /\ (pc # "idle" /\ HasSymbol /\ ~credential) => EndsInError /\ calls = <<>>
    /\ \A i \in 1..Len(calls) :
          calls[i].outcome # "ok" => EndsInError /\ Len(calls) = i
    /\ NoPriceCase => EndsInError /\ Len(calls) = 1
    /\ NoExpirationsCase => EndsInError /\ Len(calls) = 2
    /\ FewFutureCase => EndsInError /\ Len(calls) = 2

\* The second chain fetch fails on the transport after three good calls.
C1_Witness ==
    /\ Answered
    /\ Len(calls) = 4
    /\ calls[4].outcome = "transport"
    /\ response.status = 500

(***************************************************************************)
(* C2.  A request whose body has no symbol (absent, null or empty) gets    *)
(* status 400 and causes no upstream call, with or without a credential.   *)
(***************************************************************************)
C2_NoSymbolIs400WithoutCalls ==
    (pc # "idle" /\ ~HasSymbol) =>
        /\ Answered
        /\ response.status = 400
        /\ calls = <<>>

\* No symbol and no credential either.
C2_Witness ==
    /\ Answered
    /\ body = [symbol |-> None]
    /\ ~credential
    /\ response.status = 400

Qualifies(c) ==
    /\ c.option_type = "put"
    /\ Abs(c.delta) <= max_delta
    /\ c.volume >= min_volume
    /\ c.open_interest >= min_open_interest
    /\ c.strike <= max_strike

(***************************************************************************)
(* C3.  filter_and_format_options returns, in the chain's order, exactly   *)
(* the contracts that are puts with |delta| <= max_delta, volume >=        *)
(* min_volume, open_interest >= min_open_interest, strike <= max_strike.   *)
(***************************************************************************)
C3_FilterIsQualifyingSubsequence ==
    f_pc = "returned" =>
        LET want == SelectSeq(f_options, Qualifies)
        IN  /\ Len(f_ret) = Len(want)
            /\ \A i \in 1..Len(f_ret) :
                  /\ f_ret[i].Symbol = want[i].symbol
                  /\ f_ret[i].Strike = want[i].strike
                  /\ f_ret[i].Volume = want[i].volume
                  /\ f_ret[i].Open_Interest = want[i].open_interest
                  /\ f_ret[i].Delta = want[i].delta
                  /\ f_ret[i].Symbol[3] = "put"
                  /\ Abs(f_ret[i].Delta) <= max_delta
                  /\ f_ret[i].Volume >= min_volume
                  /\ f_ret[i].Open_Interest >= min_open_interest
                  /\ f_ret[i].Strike <= max_strike

\* Two puts kept in the chain's order, which is not the strikes' order, around
\* a dropped one.
C3_Witness ==
    /\ f_pc = "returned"
    /\ Len(f_options) = 3
    /\ f_options[2].volume < min_volume
    /\ Len(f_ret) = 2
    /\ f_ret[1].Strike = 30
    /\ f_ret[2].Strike = 15

(***************************************************************************)
(* C4.  The expiration keys of a successful response are dates strictly    *)
(* after today, and are the two chronologically nearest such dates among   *)
(* those the upstream listed, whatever order it listed them in.            *)
(***************************************************************************)
C4_KeysAreTwoNearestFutureDates ==
    (Answered /\ response.status = 200) =>
        LET keys == DOMAIN response.expirations
        IN  /\ Cardinality(keys) = 2
            /\ keys \subseteq FutureDates
            /\ \A k \in keys : \A d \in FutureDates \ keys :
                  ToOrdinal(k) < ToOrdinal(d)

(***************************************************************************)
(* C5.  As claimed: no price, and fewer than two future expirations, are   *)
(* both answered with a 4xx status and a message.                          *)
(***************************************************************************)
C5_InsufficientDataIs4xx ==
    (NoPriceCase \/ FewFutureCase) =>
        /\ Answered
        /\ response.status \in 400..499
        /\ response.error # ""

(***************************************************************************)
(* C5, as amended.  No price is answered with status 500 and the message   *)
(* 'Failed to fetch current stock price'.  Fewer than two future           *)
(* expirations is answered with a 4xx status and a message: 404 when the   *)
(* upstream listed none at all, 400 'Not enough future expirations         *)
(* available' when it listed some and all of them are dates.               *)
(***************************************************************************)
C5_NoPriceIs500FewFutureIs4xx ==
    /\ NoPriceCase =>
          /\ Answered
          /\ response.status = 500
          /\ response.error = "Failed to fetch current stock price"
    /\ FewFutureCase =>
          /\ Answered
          /\ response.status \in 400..499
          /\ response.error # ""
    /\ (FewFutureCase /\ all_expirations = <<>>) => response.status = 404
    /\ (FewFutureCase /\ all_expirations # <<>>
          /\ \A i \in 1..Len(all_expirations) : ValidDate(all_expirations[i])) =>
          /\ response.status = 400
          /\ response.error = "Not enough future expirations available"

\* Today's own expiration and one future date: one future expiration only.
C5_Witness ==
    /\ Answered
    /\ all_expirations = <<today, <<2024, 3, 8>>>>
    /\ CallOk(2)
    /\ response.status = 400

(***************************************************************************)
(* C6.  A failure that is neither an upstream 401 nor a missing credential *)
(* is answered with status 500 and the fixed message: never with 401,      *)
(* never with the exception's text.                                        *)
(***************************************************************************)
C6_OtherFailuresAreGeneric500 ==
    (raised # "" /\ credential /\ \A i \in 1..Len(calls) : calls[i].outcome # "401") =>
        /\ response.status = 500
        /\ response.error = "An unexpected error occurred"

\* Nothing in the chain can make its analysis raise: every contract expires
\* on a date after today.
Analysable(chain) ==
    \A k \in 1..Len(chain) :
        /\ ValidDate(chain[k].expiration_date)
        /\ ToOrdinal(chain[k].expiration_date) > ToOrdinal(today)

(***************************************************************************)
(* C7.  A chain fetch that succeeds with zero contracts does not fail the  *)
(* request: that expiration gets the empty result, the other expiration is *)
(* still fetched and analysed, and the response is a success with an entry *)
(* for both.                                                               *)
(***************************************************************************)
C7_EmptyChainIsNotAFailure ==
    \A i \in 1..Len(chains) :
        chains[i] = <<>> =>
            LET other == 3 - i
                exp == next_two_expirations[i]
            IN  \* the empty chain itself ends nothing
                /\ Len(calls) = i + 2 => /\ raised = ""
                                         /\ ~IsError
                                         /\ exp \in DOMAIN results
                                         /\ results[exp] = EmptyResult
                \* after an empty first chain the second is fetched
                /\ (i = 1 /\ Len(calls) = 3) => pc = "chain"
                /\ (i = 1 /\ Answered) => Len(calls) = 4
                \* and with the other chain fetched and sound, success
                /\ (Answered /\ Len(chains) = 2 /\ Analysable(chains[other])) =>
                      /\ response.status = 200
                      /\ response.payload
                      /\ DOMAIN response.expirations =
                             {next_two_expirations[1], next_two_expirations[2]}
                      /\ response.expirations[exp] = EmptyResult
                      /\ chains[other] # <<>> =>
                            /\ response.expirations[next_two_expirations[other]]
                                   .put_call_ratio # None
                            /\ response.expirations[next_two_expirations[other]]
                                   .max_pain # None

\* An empty first chain, then a chain with a qualifying put.
C7_Witness ==
    /\ Answered
    /\ response.status = 200
    /\ Len(chains) = 2
    /\ chains[1] = <<>>
    /\ chains[2] # <<>>
    /\ Len(response.expirations[next_two_expirations[2]].options) = 1

RECURSIVE SumOver(_, _, _)
SumOver(I, chain, s) ==
    IF I = {} THEN 0
    ELSE LET i == CHOOSE x \in I : TRUE
             c == chain[i]
             loss == IF c.option_type = "call"
                     THEN (IF s > c.strike THEN (s - c.strike) * c.open_interest
                           ELSE 0)
                     ELSE (IF c.strike > s THEN (c.strike - s) * c.open_interest
                           ELSE 0)
         IN  loss + SumOver(I \ {i}, chain, s)

PainAt(chain, s) == SumOver(1..Len(chain), chain, s)

Permuted(chain, p) == [i \in 1..Len(chain) |-> chain[p[i]]]

(***************************************************************************)
(* C8.  calculate_max_pain returns a strike of the chain whose total pain  *)
(* is least over the chain's strikes, the smallest such strike, and so the *)
(* same strike for every permutation of the chain.                         *)
(***************************************************************************)
C8_MaxPainIsSmallestMinimiser ==
    f_pc = "returned" =>
        LET S == {f_options[i].strike : i \in 1..Len(f_options)}
        IN  /\ f_ret \in S
            /\ \A s \in S : PainAt(f_options, f_ret) <= PainAt(f_options, s)
            /\ \A s \in S :
                  PainAt(f_options, s) = PainAt(f_options, f_ret) => f_ret <= s
            /\ \A p \in Permutations(1..Len(f_options)) :
                  calculate_max_pain(Permuted(f_options, p)) = f_ret

\* Two strikes tie at the least pain, the larger one listed first.
C8_Witness ==
    /\ f_pc = "returned"
    /\ Len(f_options) = 3
    /\ f_options[1].strike = 20
    /\ f_options[2].strike = 10
    /\ f_options[3].strike = 30
    /\ PainAt(f_options, 20) = PainAt(f_options, 10)
    /\ PainAt(f_options, 10) > 0
    /\ PainAt(f_options, 30) > PainAt(f_options, 10)
    /\ f_ret = 10

Distance(i) == Abs(f_options[i].strike - f_price)

FirstNearest ==
    CHOOSE i \in 1..Len(f_options) :
        /\ \A j \in 1..Len(f_options) : Distance(i) <= Distance(j)
        /\ \A j \in 1..(i - 1) : Distance(j) > Distance(i)

LegsAt(type, strike) ==
    {i \in 1..Len(f_options) :
        f_options[i].option_type = type /\ f_options[i].strike = strike}

(***************************************************************************)
(* C9.  calculate_expected_move takes as ATM strike the strike of the      *)
(* first contract, in the chain's order, at the least distance from the    *)
(* current price; it returns none when the chain has no call or no put at  *)
(* exactly that strike, and otherwise the bid of the call plus the bid of  *)
(* the put at that strike, which is not negative.                          *)
(***************************************************************************)
C9_ExpectedMoveIsStraddleAtFirstNearest ==
    f_pc = "returned" =>
        LET atm == f_options[FirstNearest].strike
            callsAt == LegsAt("call", atm)
            putsAt == LegsAt("put", atm)
        IN  IF callsAt = {} \/ putsAt = {}
            THEN f_ret = None
            ELSE /\ f_ret = Some(f_options[SetMin(callsAt)].bid
                                   + f_options[SetMin(putsAt)].bid)
                 /\ f_ret[1] >= 0

\* Strikes 19 and 21 are equally near 20; the first listed, 21, has both
\* legs and the other has not.
C9_Witness ==
    /\ f_pc = "returned"
    /\ f_price = 20
    /\ Len(f_options) = 3
    /\ f_options[1].strike = 21 /\ f_options[1].option_type = "put"
    /\ f_options[2].strike = 19
    /\ f_options[3].strike = 21 /\ f_options[3].option_type = "call"
    /\ f_ret = Some(f_options[1].bid + f_options[3].bid)

(***************************************************************************)
(* C10.  The annualized return is never computed by dividing by zero: a    *)
(* contract with no days left to expiration is either refused with an      *)
(* InvalidExpiration outcome or handled as a case of its own.              *)
(***************************************************************************)
C10_NeverDividesByZero ==
    /\ raised # "ZeroDivisionError"
    /\ \A i \in 1..Len(chains) :
          (\E k \in 1..Len(chains[i]) :
              /\ Qualifies(chains[i][k])
              /\ chains[i][k].expiration_date = today
              /\ \A j \in 1..(k - 1) :
                    ValidDate(chains[i][j].expiration_date)) =>
              (raised = "InvalidExpiration" \/ raised = "")

====
